---- MODULE Spec2Model ----
(***************************************************************************)
(* Model of Scrapper/app.py: the license manager, the Streamlit script     *)
(* (admin section and main), and scrape_google_maps with its helpers       *)
(* extract_element / extract_attribute.                                    *)
(*                                                                         *)
(* Encoding of Python values:                                              *)
(*   None          is <<>>            (operator None)                      *)
(*   a str value s is <<s>>           (operator Some)                      *)
(*   keyword, location and the URL are sequences of one-character strings  *)
(*   a dict is a TLA+ record / function                                    *)
(* A card (WebElement) is looked at through its DOM: a function from CSS   *)
(* selector to the sequence of elements matching it below the card.        *)
(***************************************************************************)
EXTENDS Integers, Sequences, FiniteSets, TLC

(***************************** bounds **************************************)
\* number of distinct content units the page can ever show
MaxUnits == 3
\* largest max_results a request carries (the slider's 10..500 scaled down)
MaxK == 2
\* page heights are 1..MaxHeight
MaxHeight == 2
\* the clock runs over ticks 0..MaxTick
MaxTick == 2
\* license durations are 1..MaxDuration days (number_input 1..365 scaled down)
MaxDuration == 1
\* keyword and location have at most MaxStrLen characters
MaxStrLen == 2

(************************* program constants *******************************)
\* clock ticks per calendar day: datetime.now() carries a time of day, the
\* '%Y-%m-%d' strings do not
TicksPerDay == 2
\* while ... and scroll_attempts < 5
StagnationThreshold == 5

(***************************** values **************************************)
None == <<>>
Some(s) == <<s>>

\* Python truthiness of an Optional[str]: None and "" are falsy
Truthy(v) == v # None /\ v # Some("")

UnitIds == 1..MaxUnits
Heights == 1..MaxHeight
Ticks == 0..MaxTick

\* keys os.urandom/sha256/base64 can produce, and what a user may type
KeySpace == {"k1"}
KeyInputs == KeySpace \cup {"", "zz"}

SelName == "div.fontHeadlineSmall"
SelRating == "span.MW4etd"
SelReviews == "span.UY7F9"
SelCategory == "div.W4Efsd:first-child > div:first-child"
SelAddress == "div.W4Efsd:nth-child(2) > span:nth-child(2)"
SelWebsite == "a[data-item-id='website']"
SelPhone == "a[data-item-id='phone']"
Selectors == {SelName, SelRating, SelReviews, SelCategory, SelAddress, SelWebsite, SelPhone}

\* an element found below a card: its .text and its href attribute
Element(t, h) == [text |-> t, href |-> h]

(************************* DOM of a card *************************************)
\* DOM of the content unit with identity u, as the loop's pages show it:
\*   u % 4 = 1  every element present
\*   u % 4 = 2  no name element (placeholder / loading card)
\*   u % 4 = 3  name present, rating and website link missing, phone present
\*   u % 4 = 0  name element present with empty text
\* Names are distinct per unit, so a record's Name identifies its unit.
UnitDom(u) ==
  LET k == u % 4
      present(t) == << Element(t, None) >>
  IN  [sel \in Selectors |->
        CASE sel = SelName     -> IF k = 2 THEN <<>>
                                  ELSE IF k = 0 THEN present("")
                                  ELSE present("name" \o ToString(u))
          [] sel = SelRating   -> IF k = 3 THEN <<>> ELSE present("4.5")
          [] sel = SelReviews  -> present("(120)")
          [] sel = SelCategory -> present("Cafe")
          [] sel = SelAddress  -> IF k = 1 THEN present("1 Main St") ELSE <<>>
          [] sel = SelWebsite  -> IF k = 3 THEN <<>>
                                  ELSE << Element("", Some("http://w")) >>
          [] sel = SelPhone    -> present("555-0100")]

\* every DOM a single card can have (used to check the per-card extraction)
AllUnitDoms ==
  LET opt(t) == { <<>>, << Element(t, None) >> }
  IN  { [sel \in Selectors |->
          CASE sel = SelName     -> n
            [] sel = SelRating   -> r
            [] sel = SelReviews  -> v
            [] sel = SelCategory -> c
            [] sel = SelAddress  -> a
            [] sel = SelWebsite  -> w
            [] sel = SelPhone    -> p] :
        n \in { <<>>, << Element("", None) >>, << Element("Joe's", None) >> },
        r \in opt("4.5"), v \in opt("(120)"), c \in opt("Cafe"),
        a \in opt("1 Main St"), p \in opt("555-0100"),
        w \in { <<>>, << Element("", None) >>, << Element("", Some("http://w")) >> } }

\* injective sequences of unit identities: what one listing call can return
CardLists ==
  { s \in UNION { [1..n -> UnitIds] : n \in 0..MaxUnits } :
      \A i, j \in DOMAIN s : i # j => s[i] # s[j] }

IsPrefix(s, t) == Len(s) <= Len(t) /\ SubSeq(t, 1, Len(s)) = s

(************************* field extraction ********************************)
extract_element_Placeholder(parent, selector) ==
  IF parent[selector] = <<>> THEN Some("N/A")
  ELSE Some(Head(parent[selector]).text)

\* extract_element: .text of the first match, None when find_element raises
extract_element(parent, selector) ==
  IF parent[selector] = <<>> THEN None
  ELSE Some(Head(parent[selector]).text)

\* extract_attribute: get_attribute(attribute) of the first match, None when
\* find_element raises (get_attribute itself yields None for a missing attribute)
extract_attribute(parent, selector, attribute) ==
  IF parent[selector] = <<>> THEN None
  ELSE Head(parent[selector])[attribute]

\* try: name = card.find_element(...).text  except: name = None
card_name(card) ==
  IF card[SelName] = <<>> THEN None
  ELSE Some(Head(card[SelName]).text)

\* the business_data dict literal
business_data(card, name) ==
  [ Name     |-> name,
    Rating   |-> extract_element(card, SelRating),
    Reviews  |-> extract_element(card, SelReviews),
    Category |-> extract_element(card, SelCategory),
    Address  |-> extract_element(card, SelAddress),
    Website  |-> extract_attribute(card, SelWebsite, "href"),
    Phone    |-> extract_element(card, SelPhone) ]

\* one pass of the for body over one card: the records it appends
card_records(card) ==
  LET name == card_name(card)
  IN  IF ~Truthy(name) THEN <<>> ELSE << business_data(card, name) >>

CapReached_NoBreak(bs, max) == FALSE

\* the units whose name can be extracted, and the cards of a listing among them
NamedUnits == { u \in UnitIds : Truthy(card_name(UnitDom(u))) }
Named(u) == u \in NamedUnits
NamedCount(cs) == Cardinality({ i \in DOMAIN cs : Named(cs[i]) })

\* if len(businesses) >= max_results: break
CapReached(bs, max) == Len(bs) >= max

\* what the for body appends for each unit's card
UnitRecords == [u \in UnitIds |-> card_records(UnitDom(u))]

RECURSIVE for_cards_Prepend(_, _, _)
for_cards_Prepend(cs, bs, max) ==
  IF cs = <<>> THEN bs
  ELSE LET new == UnitRecords[Head(cs)]
           bs2 == new \o bs
       IN  IF new # <<>> /\ CapReached(bs2, max) THEN bs2
           ELSE for_cards_Prepend(Tail(cs), bs2, max)

\* the for loop over the slice, with its break; cs is a sequence of unit ids
RECURSIVE for_cards(_, _, _)
for_cards(cs, bs, max) ==
  IF cs = <<>> THEN bs
  ELSE LET new == UnitRecords[Head(cs)]
           bs2 == bs \o new
       IN  IF new # <<>> /\ CapReached(bs2, max) THEN bs2
           ELSE for_cards(Tail(cs), bs2, max)

ResumeIndex_Ahead(bs) == Len(bs) + 1

\* cards[len(businesses):] starts at this (0-based) index
ResumeIndex(bs) == Len(bs)

Slice(cs, from) == SubSeq(cs, from + 1, Len(cs))

(************************* query URL ***************************************)
Alphabet == {"a", " ", "?", "&", "#", "/", "%"}

Strings(n) == UNION { [1..m -> Alphabet] : m \in 0..n }

SearchBase == << "https://www.google.com/maps/search/" >>

\* str.replace(' ', '%20')
RECURSIVE replace_spaces(_)
replace_spaces(s) ==
  IF s = <<>> THEN <<>>
  ELSE (IF Head(s) = " " THEN <<"%", "2", "0">> ELSE << Head(s) >>)
       \o replace_spaces(Tail(s))

\* f"{keyword} in {location}".replace(' ', '%20')
search_query(kw, loc) == replace_spaces(kw \o <<" ", "i", "n", " ">> \o loc)

\* f"https://www.google.com/maps/search/{search_query}/"
BuildUrl(kw, loc) == SearchBase \o search_query(kw, loc) \o << "/" >>

(************************* license manager *********************************)
\* strftime('%Y-%m-%d') of a datetime: the calendar day, time of day dropped
strftime(t) == t \div TicksPerDay
\* strptime(d, '%Y-%m-%d'): midnight at the start of day d
strptime(d) == d * TicksPerDay
\* datetime.now() + timedelta(days=n)
plus_days(t, n) == t + n * TicksPerDay

validate_key_Inclusive(lic, key, t) ==
  IF key \in DOMAIN lic
  THEN << t <= strptime(lic[key]), Some(lic[key]) >>
  ELSE << FALSE, None >>

\* validate_key: (is_valid, expiry_date) for the store lic at time t
validate_key(lic, key, t) ==
  IF key \in DOMAIN lic
  THEN << t < strptime(lic[key]), Some(lic[key]) >>
  ELSE << FALSE, None >>

store_put_Replace(lic, key, exp) == [k \in {key} |-> exp]

\* self.licenses[encoded_key] = expiration_date
store_put(lic, key, exp) ==
  [k \in DOMAIN lic \cup {key} |-> IF k = key THEN exp ELSE lic[k]]

EmptyStore == [k \in {} |-> 0]

(***************************** state ***************************************)
VARIABLES
  license_file,    \* licenses.json: key -> expiry day
  licenses,        \* license_manager.licenses
  now,             \* the clock datetime.now() reads
  pc,              \* position of the script run
  license_key,     \* main: the key typed
  is_valid,        \* main: validate_key(...)[0]
  expiry_date,     \* main: validate_key(...)[1]
  keyword, location, max_results,   \* arguments of scrape_google_maps
  session,         \* the driver of this call: "none", "open", "closed"
  url,             \* the URL handed to driver.get
  businesses, last_height, scroll_attempts, cards,   \* locals of the loop
  exc,             \* the exception propagating out of scrape_google_maps
  results,         \* main: what scrape_google_maps returned
  ui,              \* what main rendered
  flatScrolls,     \* history: the scroll commands issued in this call while no
                   \* height read has differed from the one before; NotFlat
                   \* once one has
  growOnly,        \* history: every listing so far extended the previous one
  listedAny,       \* history: some listing of this call returned a card
  exposedCap,      \* history: some listing held >= max_results named cards
  unit, record     \* one card and what the for body appends for it

vars == << license_file, licenses, now, pc, license_key, is_valid, expiry_date,
           keyword, location, max_results, session, url, businesses,
           last_height, scroll_attempts, cards, exc, results, ui, flatScrolls,
           growOnly, listedAny, exposedCap, unit, record >>

licenseVars == << license_file, licenses, now >>
mainVars    == << license_key, is_valid, expiry_date >>
argVars     == << keyword, location, max_results >>
loopVars    == << businesses, last_height, scroll_attempts, cards >>
histVars    == << flatScrolls, growOnly, listedAny, exposedCap >>
probeVars   == << unit, record >>

NotReturned == [returned |-> FALSE, value |-> <<>>]
Returned(v) == [returned |-> TRUE, value |-> v]

\* what the form can hold in Business Type / Location
FormTexts == { <<>>, <<"a", " ">> }
\* the Maximum Results slider (10..500 in steps of 10, scaled down)
SliderValues == 1..MaxK

\* the locals of a script run before it has assigned them
FreshLocals ==
  /\ license_key = "" /\ is_valid = FALSE /\ expiry_date = None
  /\ keyword = <<>> /\ location = <<>> /\ max_results = 1
  /\ session = "none" /\ url = <<>>
  /\ businesses = <<>> /\ last_height = 1 /\ scroll_attempts = 0 /\ cards = <<>>
  /\ exc = "none" /\ results = NotReturned /\ ui = "none"
  /\ flatScrolls = 0 /\ growOnly = TRUE /\ listedAny = FALSE
  /\ exposedCap = FALSE

Init ==
  /\ license_file = EmptyStore /\ licenses = EmptyStore /\ now = 0
  /\ pc = "start"
  /\ FreshLocals
  /\ unit = UnitDom(1) /\ record = <<>>

\* licenses.json as an earlier session left it: one key, expiring on day 1
OldStore == [k \in {"k0"} |-> 1]

\* the first script run of a session that finds licenses.json already written
InitLicense ==
  /\ license_file = OldStore /\ licenses = OldStore /\ now = 0
  /\ pc = "start"
  /\ FreshLocals
  /\ unit = UnitDom(1) /\ record = <<>>

(************************* the script run **********************************)
\* time passes between one script run and the next
Tick ==
  /\ pc = "start" /\ now < MaxTick
  /\ now' = now + 1
  /\ UNCHANGED << license_file, licenses, pc, mainVars, argVars, session, url,
                  loopVars, exc, results, ui, histVars, probeVars >>

\* generate_key(duration_days): the store after it, as << key, expiry >> is added
generate_key(lic, key, duration_days, t) ==
  store_put(lic, key, strftime(plus_days(t, duration_days)))

\* Admin Portal: the checkbox is ticked and Generate New License is pressed
AdminGenerate ==
  /\ pc = "start"
  /\ \E d \in 1..MaxDuration, key \in KeySpace \ DOMAIN licenses :
       /\ licenses' = generate_key(licenses, key, d, now)
       /\ license_file' = licenses'
  /\ pc' = "main"
  /\ UNCHANGED << now, mainVars, argVars, session, url, loopVars, exc, results,
                  ui, histVars, probeVars >>

\* Admin Portal not used in this run
AdminSkip ==
  /\ pc = "start"
  /\ pc' = "main"
  /\ UNCHANGED << licenseVars, mainVars, argVars, session, url, loopVars, exc,
                  results, ui, histVars, probeVars >>

LicenseGate_AlwaysOpen(valid) == "inputs"

\* if not is_valid: st.error(...); return
LicenseGate(valid) == IF valid THEN "inputs" ELSE "run_end"

\* main, up to the license check
MainLicense ==
  /\ pc = "main"
  /\ \E key \in KeyInputs :
       LET v == validate_key(licenses, key, now)
       IN  /\ license_key' = key
           /\ is_valid' = v[1]
           /\ expiry_date' = v[2]
           /\ pc' = LicenseGate(v[1])
           /\ ui' = IF LicenseGate(v[1]) = "run_end" THEN "license_error" ELSE ui
  /\ UNCHANGED << licenseVars, argVars, session, url, loopVars, exc, results,
                  histVars, probeVars >>

\* main, from the search fields to the call of scrape_google_maps
MainInputs ==
  /\ pc = "inputs"
  /\ \E kw \in FormTexts, loc \in FormTexts, k \in SliderValues, pressed \in BOOLEAN :
       IF kw = <<>> \/ loc = <<>>
       THEN /\ ui' = "fields_warning" /\ pc' = "run_end"
            /\ UNCHANGED argVars
       ELSE IF ~pressed
       THEN /\ ui' = "form" /\ pc' = "run_end"
            /\ UNCHANGED argVars
       ELSE /\ keyword' = kw /\ location' = loc /\ max_results' = k
            /\ pc' = "open"
            /\ UNCHANGED ui
  /\ UNCHANGED << licenseVars, mainVars, session, url, loopVars, exc, results,
                  histVars, probeVars >>

(************************* scrape_google_maps ******************************)
\* the call is over: of its frame only businesses is still referenced (as the
\* returned list, or through the traceback while main handles the exception)
FrameDropped ==
  /\ cards' = <<>> /\ last_height' = 1 /\ scroll_attempts' = 0
  /\ UNCHANGED businesses

\* an exception leaves scrape_google_maps: control is in main's except clause
Raise(e) ==
  /\ exc' = e
  /\ pc' = "render"
  /\ FrameDropped

\* webdriver.Chrome(...)
OpenDriver ==
  /\ pc = "open"
  /\ \/ /\ session' = "open" /\ pc' = "navigate" /\ UNCHANGED << exc, loopVars >>
     \/ /\ Raise("WebDriverException") /\ UNCHANGED session
  /\ UNCHANGED << licenseVars, mainVars, argVars, url, results, ui,
                  histVars, probeVars >>

\* driver.get(f".../{search_query}/")
Navigate ==
  /\ pc = "navigate"
  /\ url' = BuildUrl(keyword, location)
  /\ \/ /\ pc' = "height0" /\ UNCHANGED << exc, loopVars >>
     \/ Raise("WebDriverException")
  /\ UNCHANGED << licenseVars, mainVars, argVars, session, results, ui,
                  histVars, probeVars >>

\* businesses = []; last_height = execute_script(...); scroll_attempts = 0
InitialHeight ==
  /\ pc = "height0"
  /\ \/ /\ \E h \in Heights : last_height' = h
        /\ businesses' = <<>> /\ scroll_attempts' = 0
        /\ pc' = "loop" /\ UNCHANGED << exc, cards >>
     \/ Raise("WebDriverException")
  /\ UNCHANGED << licenseVars, mainVars, argVars, session, url, results, ui,
                  histVars, probeVars >>

LoopCondition_NoCap(bs, max, attempts) == attempts < StagnationThreshold

LoopCondition_OffByOne(bs, max, attempts) ==
  Len(bs) < max /\ attempts <= StagnationThreshold

\* while len(businesses) < max_results and scroll_attempts < 5
LoopCondition(bs, max, attempts) ==
  Len(bs) < max /\ attempts < StagnationThreshold

NextAttempts_NoReset(attempts, new_height, last) ==
  IF new_height = last THEN attempts + 1 ELSE attempts

NextAttempts_NoGrowth(attempts, new_height, last) ==
  IF new_height <= last THEN attempts + 1 ELSE 0

\* if new_height == last_height: scroll_attempts += 1  else: scroll_attempts = 0
NextAttempts(attempts, new_height, last) ==
  IF new_height = last THEN attempts + 1 ELSE 0

NotFlat == -1

\* one more scroll command; the height read after it is new_height
FlatAfter(flat, new_height, last) ==
  IF flat # NotFlat /\ new_height = last THEN flat + 1 ELSE NotFlat

\* one scroll: scrollTo, sleep, read the new height, update the counters
ScrollStep ==
  /\ pc = "loop"
  /\ LoopCondition(businesses, max_results, scroll_attempts)
  /\ \/ /\ \E new_height \in Heights :
             /\ scroll_attempts' = NextAttempts(scroll_attempts, new_height, last_height)
             /\ last_height' = new_height
             /\ flatScrolls' = FlatAfter(flatScrolls, new_height, last_height)
        /\ pc' = "list"
        /\ UNCHANGED << exc, businesses, cards, growOnly, listedAny, exposedCap >>
     \/ /\ Raise("WebDriverException")
        /\ UNCHANGED histVars
  /\ UNCHANGED << licenseVars, mainVars, argVars, session, url, results, ui,
                  probeVars >>

\* WebDriverWait(driver, 10).until(presence_of_all_elements_located(...)):
\* the non-empty list of cards, TimeoutException while the list stays empty
ListCards ==
  /\ pc = "list"
  /\ \/ \E found \in CardLists :
          IF found = <<>>
          THEN /\ Raise("TimeoutException")
               /\ UNCHANGED << growOnly, listedAny, exposedCap >>
          ELSE /\ cards' = found
               /\ growOnly' = (growOnly /\ IsPrefix(cards, found))
               /\ listedAny' = TRUE
               /\ exposedCap' = (exposedCap \/ NamedCount(found) >= max_results)
               /\ pc' = "extract"
               /\ UNCHANGED << exc, businesses, last_height, scroll_attempts >>
     \/ /\ Raise("WebDriverException")
        /\ UNCHANGED << growOnly, listedAny, exposedCap >>
  /\ UNCHANGED << licenseVars, mainVars, argVars, session, url, results, ui,
                  flatScrolls, probeVars >>

\* for card in cards[len(businesses):]: ...
ExtractCards ==
  /\ pc = "extract"
  /\ businesses' = for_cards(Slice(cards, ResumeIndex(businesses)), businesses, max_results)
  /\ pc' = "loop"
  /\ UNCHANGED << licenseVars, mainVars, argVars, session, url, last_height,
                  scroll_attempts, cards, exc, results, ui, histVars, probeVars >>

\* the loop is left: driver.quit(); return businesses
QuitReturn ==
  /\ pc = "loop"
  /\ ~LoopCondition(businesses, max_results, scroll_attempts)
  /\ session' = "closed"
  /\ results' = Returned(businesses)
  /\ pc' = "render"
  /\ FrameDropped
  /\ UNCHANGED << licenseVars, mainVars, argVars, url, exc, ui, histVars,
                  probeVars >>

(************************* main, after the call ****************************)
Rendering_SwallowFault(e, res) ==
  IF res.value # <<>> THEN "success" ELSE "no_results"

\* try: results = ...; if results: success  else: warning  except: error
Rendering(e, res) ==
  IF e # "none" THEN "failed"
  ELSE IF res.value # <<>> THEN "success"
  ELSE "no_results"

MainRender ==
  /\ pc = "render"
  /\ ui' = Rendering(exc, results)
  /\ pc' = "run_end"
  /\ UNCHANGED << licenseVars, mainVars, argVars, session, url, loopVars, exc,
                  results, histVars, probeVars >>

\* Streamlit reruns the script: LicenseManager() loads the file, locals are new
Rerun ==
  /\ pc = "run_end"
  /\ licenses' = license_file
  /\ pc' = "start"
  /\ license_key' = "" /\ is_valid' = FALSE /\ expiry_date' = None
  /\ keyword' = <<>> /\ location' = <<>> /\ max_results' = 1
  /\ session' = "none" /\ url' = <<>>
  /\ businesses' = <<>> /\ last_height' = 1 /\ scroll_attempts' = 0 /\ cards' = <<>>
  /\ exc' = "none" /\ results' = NotReturned /\ ui' = "none"
  /\ flatScrolls' = 0 /\ growOnly' = TRUE /\ listedAny' = FALSE
  /\ exposedCap' = FALSE
  /\ UNCHANGED << license_file, now, probeVars >>

Next ==
  \/ Tick \/ AdminGenerate \/ AdminSkip \/ MainLicense \/ MainInputs
  \/ OpenDriver \/ Navigate \/ InitialHeight \/ ScrollStep \/ ListCards
  \/ ExtractCards \/ QuitReturn \/ MainRender \/ Rerun

Spec == Init /\ [][Next]_vars

(************************* further specifications **************************)
\* the loop always takes its next step; the page's answers stay free
SpecLicense == InitLicense /\ [][Next]_vars

SpecFair == Spec /\ WF_vars(Next)

\* scrape_google_maps called directly with any non-empty keyword and location
InitUrl ==
  /\ license_file = EmptyStore /\ licenses = EmptyStore /\ now = 0
  /\ pc = "open"
  /\ license_key = "" /\ is_valid = FALSE /\ expiry_date = None
  /\ keyword \in Strings(MaxStrLen) \ { <<>> }
  /\ location \in Strings(MaxStrLen) \ { <<>> }
  /\ max_results = 1
  /\ session = "none" /\ url = <<>>
  /\ businesses = <<>> /\ last_height = 1 /\ scroll_attempts = 0 /\ cards = <<>>
  /\ exc = "none" /\ results = NotReturned /\ ui = "none"
  /\ flatScrolls = 0 /\ growOnly = TRUE /\ listedAny = FALSE
  /\ exposedCap = FALSE
  /\ unit = UnitDom(1) /\ record = <<>>

NextUrl == OpenDriver \/ Navigate

SpecUrl == InitUrl /\ [][NextUrl]_vars

\* the body of the for loop applied to one card with any DOM
InitUnit ==
  /\ license_file = EmptyStore /\ licenses = EmptyStore /\ now = 0
  /\ pc = "card"
  /\ FreshLocals
  /\ unit \in AllUnitDoms /\ record = <<>>

ProcessCard ==
  /\ pc = "card"
  /\ record' = card_records(unit)
  /\ pc' = "card_done"
  /\ UNCHANGED << licenseVars, mainVars, argVars, session, url, loopVars, exc,
                  results, ui, histVars, unit >>

NextUnit == ProcessCard

SpecUnit == InitUnit /\ [][NextUnit]_vars

(***************************** claims **************************************)
NoRepeat(s) == \A i, j \in DOMAIN s : i # j => s[i] # s[j]

\* C1: the sequence scrape_google_maps returns has at most max_results
\* records; and once a listing has held at least max_results cards with an
\* extractable name, the call returns (no exception) exactly max_results.
C1_LengthWithinCap ==
  /\ results.returned => Len(results.value) <= max_results
  /\ (exposedCap /\ pc \in {"render", "run_end"})
       => results.returned /\ Len(results.value) = max_results

C1_Witness ==
  /\ results.returned /\ exposedCap /\ max_results >= 2
  /\ Len(results.value) = max_results
  /\ NoRepeat(results.value)

\* C2: while every listing extends the previous one, no unit is extracted
\* twice: the records accumulated so far have pairwise distinct units.
C2_NoUnitTwice == growOnly => NoRepeat(businesses)

\* C3: when control is back in main after the session was opened, the
\* session has been closed.
C3_SessionClosedOnExit == (pc \in {"render", "run_end"}) => session # "open"

\* C4: a call in which no listing ever showed a card, the height never
\* changed and no driver call failed ends by stagnation after 5 scrolls with
\* an empty result, and main reports "no results".
C4_ZeroUnitsNoResults ==
  (pc = "run_end" /\ session # "none" /\ ~listedAny /\ flatScrolls # NotFlat
     /\ exc # "WebDriverException")
  => /\ results.returned /\ results.value = <<>>
     /\ flatScrolls = StagnationThreshold
     /\ ui = "no_results"

TextFields ==
  [ Rating |-> SelRating, Reviews |-> SelReviews, Category |-> SelCategory,
    Address |-> SelAddress, Phone |-> SelPhone ]

\* C6: a card whose name element exists with non-empty text yields exactly
\* one record, Name holding that text, every field whose lookup fails None
\* and every other field the value read; a card with no name or an empty
\* one yields no record.
C6_FieldResilience ==
  pc = "card_done" =>
    IF unit[SelName] # <<>> /\ unit[SelName][1].text # ""
    THEN /\ Len(record) = 1
         /\ record[1].Name = Some(unit[SelName][1].text)
         /\ \A f \in DOMAIN TextFields :
              LET found == unit[TextFields[f]]
              IN  record[1][f] = IF found = <<>> THEN None
                                 ELSE Some(found[1].text)
         /\ record[1].Website = IF unit[SelWebsite] = <<>> THEN None
                                ELSE unit[SelWebsite][1].href
    ELSE record = <<>>

C6_Witness ==
  /\ pc = "card_done" /\ Len(record) = 1
  /\ record[1].Rating = None /\ record[1].Website = None
  /\ record[1].Phone # None /\ record[1].Address # None

\* C7: whenever the scroll loop is entered, control eventually leaves it.
C7_LoopTerminates == (pc = "loop") ~> (pc = "render")

\* C8: scrape_google_maps is entered, and a session exists, only in a run
\* whose validate_key call answered true for the key typed in that run: the
\* key is in the store and the clock is before the start of its expiry day.
C8_ScrapeOnlyWhenLicensed ==
  (pc \in {"open", "navigate", "height0", "loop", "list", "extract", "render"}
     \/ session # "none" \/ results.returned \/ exc # "none")
  => /\ is_valid
     /\ license_key \in DOMAIN licenses
     /\ now < licenses[license_key] * TicksPerDay

C8_Witness == session = "open" /\ is_valid /\ license_key = "k1"

\* C9: once a driver call has raised, scrape_google_maps returns nothing,
\* control is in main's except clause or beyond, and main renders the
\* failure, whatever had been accumulated.
C9_FaultSurfaced ==
  exc # "none" =>
    /\ ~results.returned
    /\ pc \in {"render", "run_end"}
    /\ pc = "run_end" => ui = "failed"

C9_Witness ==
  /\ pc = "run_end" /\ exc = "WebDriverException"
  /\ businesses # <<>> /\ ui = "failed"

\* a reference percent-encoder: unreserved characters stay, every other
\* character becomes % and its two hexadecimal digits
PercentEncodeChar(c) ==
  CASE c = " " -> <<"%", "2", "0">>
    [] c = "?" -> <<"%", "3", "F">>
    [] c = "&" -> <<"%", "2", "6">>
    [] c = "#" -> <<"%", "2", "3">>
    [] c = "/" -> <<"%", "2", "F">>
    [] c = "%" -> <<"%", "2", "5">>
    [] OTHER   -> << c >>

RECURSIVE PercentEncode(_)
PercentEncode(s) ==
  IF s = <<>> THEN <<>>
  ELSE PercentEncodeChar(Head(s)) \o PercentEncode(Tail(s))

\* C10: the URL navigated to is the search base, the percent-encoding of
\* "<keyword> in <location>" and a trailing "/".
C10_UrlPercentEncoded ==
  url # <<>> =>
    url = SearchBase
          \o PercentEncode(keyword \o <<" ", "i", "n", " ">> \o location)
          \o << "/" >>

\* C11: a scroll step that reads a height equal to last_height adds one to
\* scroll_attempts and leaves last_height as it was; one that reads another
\* height sets scroll_attempts to 0 and last_height to the height read. So
\* while no read has differed, scroll_attempts is the number of scrolls made.
C11_StagnationCounter ==
  /\ [][ (pc = "loop" /\ pc' = "list") =>
           \/ /\ last_height' = last_height
              /\ scroll_attempts' = scroll_attempts + 1
           \/ /\ last_height' # last_height
              /\ scroll_attempts' = 0 ]_vars
  /\ [](( pc \in {"loop", "list", "extract"} /\ flatScrolls # NotFlat )
          => scroll_attempts = flatScrolls)

C11_Witness ==
  pc = "list" /\ flatScrolls = NotFlat /\ scroll_attempts = 2

\* C12 (as claimed): a scroll after which the height is not larger than
\* before counts as a no-growth attempt.
C12_NoGrowthCounts ==
  [][ (pc = "loop" /\ pc' = "list" /\ last_height' <= last_height)
        => scroll_attempts' = scroll_attempts + 1 ]_vars

\* C12 (amended): only a scroll that leaves the height exactly equal counts;
\* a scroll after which the height is smaller resets scroll_attempts to 0,
\* like one that increases it; and once scroll_attempts has reached 5 the
\* only step of the loop is to leave it.
C12_OnlyEqualCounts ==
  [][ /\ (pc = "loop" /\ pc' = "list" /\ last_height' < last_height)
           => scroll_attempts' = 0
      /\ (pc = "loop" /\ pc' = "list" /\ last_height' = last_height)
           => scroll_attempts' = scroll_attempts + 1
      /\ (pc = "loop" /\ scroll_attempts >= StagnationThreshold)
           => pc' = "render" /\ results'.returned ]_vars

\* the height read last is the smallest one and differs from the one before
C12_Witness ==
  /\ pc = "list" /\ scroll_attempts = 0 /\ flatScrolls = NotFlat
  /\ last_height = 1

\* the records of the named units of cs, each unit's record in its position
RECURSIVE RecordsOf(_)
RecordsOf(cs) ==
  IF cs = <<>> THEN <<>>
  ELSE card_records(UnitDom(Head(cs))) \o RecordsOf(Tail(cs))

\* C13: within one scrape the accumulated records only grow at the end: every
\* step keeps the records so far as a prefix, untouched; what an extraction
\* pass appends are the records of consecutive units of the visible list, from
\* the resume position on, in list order; and the sequence returned is the
\* accumulated one.
C13_AppendOnly ==
  [][ /\ pc \in {"loop", "list", "extract"} => IsPrefix(businesses, businesses')
      /\ (pc = "extract" /\ pc' = "loop") =>
           \E m \in 0..Len(cards) :
             businesses' =
               businesses \o RecordsOf(SubSeq(cards, Len(businesses) + 1, m))
      /\ (pc = "loop" /\ results'.returned) => results'.value = businesses
    ]_vars

\* two different records accumulated around a unit without a name
C13_Witness ==
  /\ pc = "loop" /\ cards = << 3, 2, 1 >>
  /\ Len(businesses) = 2 /\ businesses[1] # businesses[2]
  /\ businesses = RecordsOf(cards)

\* C14: the license store, in memory and on file, is changed by no step of
\* validate_key or scrape_google_maps; the only step that changes it is
\* generate_key, which adds exactly one key that was not stored and leaves
\* every stored key with the expiry it had.
C14_StoreChangedOnlyByGenerate ==
  [][ /\ pc # "start" => licenses' = licenses /\ license_file' = license_file
      /\ \/ licenses' = licenses /\ license_file' = license_file
         \/ /\ pc = "start" /\ pc' = "main"
            /\ \E k \in KeySpace \ DOMAIN licenses :
                 DOMAIN licenses' = DOMAIN licenses \cup {k}
            /\ \A j \in DOMAIN licenses : licenses'[j] = licenses[j]
            /\ license_file' = licenses'
    ]_vars

\* a key generated next to the stored one, then validated, then a scrape run
C14_Witness ==
  /\ DOMAIN licenses = {"k0", "k1"} /\ licenses["k0"] = OldStore["k0"]
  /\ license_file = licenses
  /\ license_key = "k1" /\ is_valid /\ results.returned

\* the record of every named unit of the listing cs is among the records bs
AllNamedIn(cs, bs) ==
  \A i \in DOMAIN cs :
    Named(cs[i]) => \E j \in DOMAIN bs : << bs[j] >> = card_records(UnitDom(cs[i]))

\* C15: while the listing has only grown, the resume index len(businesses)
\* never passes the end of the listing, and after every extraction pass that
\* stays below the cap every named unit of the listing has its record
\* accumulated, units without a name in between or not; so a call that ends
\* by stagnation returns a record for every named unit it last listed.
C15_NoUnitMissed ==
  /\ []( (pc \in {"loop", "extract"} /\ growOnly)
           => ResumeIndex(businesses) <= Len(cards) )
  /\ []( (pc = "loop" /\ growOnly /\ Len(businesses) < max_results)
           => AllNamedIn(cards, businesses) )
  /\ [][ ( /\ pc = "loop" /\ results'.returned /\ growOnly
           /\ scroll_attempts >= StagnationThreshold
           /\ Len(businesses) < max_results )
         => AllNamedIn(cards, results'.value) ]_vars

\* the loop about to end by stagnation below the cap, the listing holding a
\* named unit and one without a name
C15_Witness ==
  /\ pc = "loop" /\ growOnly /\ scroll_attempts = StagnationThreshold
  /\ cards = << 1, 2 >> /\ Len(businesses) = 1 /\ max_results = 2
  /\ flatScrolls = NotFlat

\* C16: with max_results >= 1, in every state of the loop scroll_attempts is
\* between 0 and 5 and len(businesses) is at most max_results; a scroll is
\* issued only while len(businesses) < max_results and scroll_attempts < 5;
\* and once the cap is reached there is no further scroll and no further
\* extraction: the listing and the extraction pass run only below the cap.
C16_LoopBounds ==
  /\ []( pc \in {"loop", "list", "extract"} =>
           /\ max_results >= 1
           /\ 0 <= scroll_attempts /\ scroll_attempts <= StagnationThreshold
           /\ Len(businesses) <= max_results )
  /\ []( pc \in {"list", "extract"} => Len(businesses) < max_results )
  /\ [][ (pc = "loop" /\ pc' = "list") =>
           /\ Len(businesses) < max_results
           /\ scroll_attempts < StagnationThreshold ]_vars
  /\ [][ (pc = "loop" /\ Len(businesses) >= max_results) =>
           /\ pc' = "render" /\ results'.returned
           /\ businesses' = businesses ]_vars

\* the cap reached in the loop after a scroll that found the height unchanged
C16_Witness ==
  /\ pc = "loop" /\ Len(businesses) = max_results /\ max_results = MaxK
  /\ scroll_attempts >= 1

\* the first instant of calendar day d
StartOfDay(d) == d * TicksPerDay

\* C17: a key generated for d >= 1 days is stored with the expiry date d days
\* after the day of generation and is within its validity at the instant of
\* generation; validating a stored key gives its expiry date, with true at
\* every time strictly before the start of that date and false from the start
\* of that date on; validating a key that was never generated gives
\* (false, None).
C17_LicenseRoundTrip ==
  /\ [][ (pc = "start" /\ pc' = "main") =>
           \A k \in DOMAIN licenses' \ DOMAIN licenses :
             /\ \E d \in 1..MaxDuration :
                  licenses'[k] = (now \div TicksPerDay) + d
             /\ now' < StartOfDay(licenses'[k]) ]_vars
  /\ []( pc \notin {"start", "main"} =>
           IF license_key \in DOMAIN licenses
           THEN /\ expiry_date = Some(licenses[license_key])
                /\ is_valid = (now < StartOfDay(licenses[license_key]))
           ELSE /\ is_valid = FALSE /\ expiry_date = None )

\* the generated key validated at the first instant of its expiry date
C17_Witness ==
  /\ pc = "run_end" /\ license_key = "k1" /\ "k1" \in DOMAIN licenses
  /\ now = StartOfDay(licenses["k1"])
  /\ is_valid = FALSE /\ expiry_date = Some(licenses["k1"])

====
